---- MODULE Spec2Model ----
(***************************************************************************)
(* Helios: chunked parallel event processing tracked as asynchronous jobs. *)
(* Model of scripts/compute.py, scripts/worker.py, scripts/job_manager.py  *)
(* and scripts/main.py.                                                    *)
(*                                                                         *)
(* Units: energies are naturals counted in one fixed quantum; a Python     *)
(* float is a natural with at most MantBits significant bits, and every    *)
(* float operation rounds its exact result to the nearest such number      *)
(* (ties to even), as IEEE-754 binary64 does with 53 bits.  Progress is    *)
(* counted in tenths (0.3 is 3).  Python's None is the empty set and a     *)
(* present optional value v is {v}.                                        *)
(***************************************************************************)
EXTENDS Integers, Sequences, FiniteSets, TLC

\* ------------------------------------------------------------------ bounds
MantBits == 5
MaxPartials == 3
MaxRows == 12
MaxWorkers == 5
MaxJobs == 2
MaxClock == 1
MaxCallJobs == 1
MaxEvents == 3

\* ------------------------------------------------------- float arithmetic
RECURSIVE Pow2(_)
Pow2(n) == IF n = 0 THEN 1 ELSE 2 * Pow2(n - 1)

\* the spacing of representable numbers at magnitude x
RECURSIVE Ulp(_)
Ulp(x) == IF x < Pow2(MantBits) THEN 1 ELSE 2 * Ulp(x \div 2)

\* round-to-nearest, ties-to-even, of an exact natural x
Round(x) ==
    LET u == Ulp(x)
        q == x \div u
        r == x % u
    IN  IF 2 * r < u THEN q * u
        ELSE IF 2 * r > u THEN (q + 1) * u
        ELSE IF q % 2 = 0 THEN q * u ELSE (q + 1) * u

FAdd(a, b) == Round(a + b)
\* true division, cut to the quantum
FDiv(a, b) == Round(a \div b)

\* ------------------------------------------------------------- optionals
None == {}
Some(v) == {v}
\* the value of an optional that is present; TheOne({f(x) : x \in {e}}) is
\* f(e) with e computed once
TheOne(opt) == CHOOSE x \in opt : TRUE

\* ------------------------------------------------------------ input rows
\* A CSV data row as csv.DictReader yields it, reduced to the three columns
\* the processor reads.  energy is the column's text: a decimal natural, or
\* BadText, which float() rejects.
Text(n) == [numeric |-> TRUE, value |-> n]
BadText == [numeric |-> FALSE, value |-> 0]
RowValid == [status |-> "valid", sensor_id |-> 1, energy |-> Text(32)]
RowNoise == [status |-> "noise", sensor_id |-> 2, energy |-> Text(1)]
RowEdge == [status |-> "valid", sensor_id |-> 2, energy |-> Text(100)]
RowHigh == [status |-> "saturated", sensor_id |-> 1, energy |-> Text(104)]
RowBad == [status |-> "valid", sensor_id |-> 1, energy |-> BadText]

\* float(text): raises (Fail) on non-numeric text, else the nearest float
IsNumeric(text) == text.numeric
float(text) == Round(text.value)

Fail == [failed |-> TRUE]
IsFail(x) == x = Fail

\* ------------------------------------------------------- EventProcessor
HighEnergy == 100

EventProcessor ==
    [total |-> 0, status_counts |-> <<>>, sensor_counts |-> <<>>,
     energy_sum |-> 0, high_energy_events |-> 0]

\* defaultdict(int): d[k] += n
Incr(d, k, n) ==
    [x \in DOMAIN d \cup {k} |->
        (IF x \in DOMAIN d THEN d[x] ELSE 0) + (IF x = k THEN n ELSE 0)]

\* faulty variant of process_event: an energy of exactly 100 counts as high
process_event_ge(self, row) ==
    IF ~IsNumeric(row.energy) THEN Fail
    ELSE LET energy == float(row.energy)
         IN  [total |-> self.total + 1,
              status_counts |-> Incr(self.status_counts, row.status, 1),
              sensor_counts |-> Incr(self.sensor_counts, row.sensor_id, 1),
              energy_sum |-> FAdd(self.energy_sum, energy),
              high_energy_events |->
                  self.high_energy_events + (IF energy >= HighEnergy THEN 1 ELSE 0)]

process_event(self, row) ==
    IF ~IsNumeric(row.energy) THEN Fail
    ELSE LET energy == float(row.energy)
         IN  [total |-> self.total + 1,
              status_counts |-> Incr(self.status_counts, row.status, 1),
              sensor_counts |-> Incr(self.sensor_counts, row.sensor_id, 1),
              energy_sum |-> FAdd(self.energy_sum, energy),
              high_energy_events |->
                  self.high_energy_events + (IF energy > HighEnergy THEN 1 ELSE 0)]

get_results(self) ==
    [total |-> self.total,
     status_counts |-> self.status_counts,
     sensor_counts |-> self.sensor_counts,
     energy_sum |-> self.energy_sum,
     high_energy_events |-> self.high_energy_events,
     avg_energy |-> IF self.total > 0 THEN FDiv(self.energy_sum, self.total) ELSE 0]

\* the loop over enumerate(reader): rows before start_row are skipped, the
\* loop breaks at start_row + num_rows; an exception aborts the whole call
\* (next is the processor after process_event(row), computed once)
RECURSIVE ReadRows(_, _, _, _, _)
ReadRows(rows, i, start_row, num_rows, processor) ==
    IF i > Len(rows) THEN processor
    ELSE IF i - 1 < start_row THEN ReadRows(rows, i + 1, start_row, num_rows, processor)
    ELSE IF i - 1 >= start_row + num_rows THEN processor
    ELSE TheOne({IF IsFail(next) THEN Fail
                 ELSE ReadRows(rows, i + 1, start_row, num_rows, next) :
                     next \in {process_event(processor, rows[i])}})

\* compute.process_chunk_worker: the partial result of one pool unit
process_chunk_worker(rows, start_row, num_rows, chunk_id) ==
    TheOne({IF IsFail(processor) THEN Fail
             ELSE TheOne({[f \in DOMAIN results \cup {"chunk_id"} |->
                              IF f = "chunk_id" THEN chunk_id ELSE results[f]] :
                          results \in {get_results(processor)}}) :
                 processor \in {ReadRows(rows, 1, start_row, num_rows, EventProcessor)}})

\* worker.main: the artifact one worker process writes (processing_time is
\* wall-clock time, not modelled)
worker_main(rows, start_row, num_rows, worker_id) ==
    TheOne({IF IsFail(processor) THEN Fail
             ELSE TheOne({[f \in DOMAIN results \cup {"worker_id"} |->
                              IF f = "worker_id" THEN worker_id ELSE results[f]] :
                          results \in {get_results(processor)}}) :
                 processor \in {ReadRows(rows, 1, start_row, num_rows, EventProcessor)}})

\* ---------------------------------------------------------- merge_results
\* faulty variant of AddCounts: merged[k] = count where the code has merged[k] += count
AddCountsAssign(acc, d) ==
    [k \in DOMAIN acc \cup DOMAIN d |-> IF k \in DOMAIN d THEN d[k] ELSE acc[k]]

\* the two inner loops: merged[...][k] += count for every key of the result
AddCounts(acc, d) ==
    [k \in DOMAIN acc \cup DOMAIN d |->
        (IF k \in DOMAIN acc THEN acc[k] ELSE 0) + (IF k \in DOMAIN d THEN d[k] ELSE 0)]

MergeInit(partial_results) ==
    [total |-> 0, status_counts |-> <<>>, sensor_counts |-> <<>>,
     energy_sum |-> 0, high_energy_events |-> 0,
     chunks_processed |-> Len(partial_results)]

\* faulty variant of MergeStep: merged['total'] = result['total'] where the code has +=
MergeStepAssign(m, result) ==
    [m EXCEPT !.total = result.total,
              !.energy_sum = FAdd(@, result.energy_sum),
              !.high_energy_events = @ + result.high_energy_events,
              !.status_counts = AddCounts(@, result.status_counts),
              !.sensor_counts = AddCounts(@, result.sensor_counts)]

\* one turn of the loop over partial_results
MergeStep(m, result) ==
    [m EXCEPT !.total = @ + result.total,
              !.energy_sum = FAdd(@, result.energy_sum),
              !.high_energy_events = @ + result.high_energy_events,
              !.status_counts = AddCounts(@, result.status_counts),
              !.sensor_counts = AddCounts(@, result.sensor_counts)]

RECURSIVE MergeLoop(_, _, _)
MergeLoop(m, partial_results, i) ==
    IF i > Len(partial_results) THEN m
    ELSE MergeLoop(MergeStep(m, partial_results[i]), partial_results, i + 1)

merge_results(partial_results) ==
    LET m == MergeLoop(MergeInit(partial_results), partial_results, 1)
    IN  [total |-> m.total,
         status_counts |-> m.status_counts,
         sensor_counts |-> m.sensor_counts,
         energy_sum |-> m.energy_sum,
         high_energy_events |-> m.high_energy_events,
         chunks_processed |-> m.chunks_processed,
         avg_energy |-> IF m.total > 0 THEN FDiv(m.energy_sum, m.total) ELSE 0]

\* ------------------------------------------------------ split_into_chunks
\* faulty variant of FloorDiv: the quotient rounded up
CeilDiv(a, b) == (a + b - 1) \div b

\* Python's a // b for b # 0: the quotient rounded towards minus infinity
FloorDiv(a, b) == IF b > 0 THEN a \div b ELSE (0 - a) \div (0 - b)

\* a // b raises ZeroDivisionError
DivisionByZero(b) == b = 0

\* faulty variant of split_into_chunks: every chunk, the last one too, gets chunk_size rows
split_into_chunks_even(total_rows, num_workers) ==
    LET chunk_size == FloorDiv(total_rows, num_workers)
    IN  [k \in 1..num_workers |-> <<(k - 1) * chunk_size, chunk_size>>]

split_into_chunks(total_rows, num_workers) ==
    LET chunk_size == FloorDiv(total_rows, num_workers)
    IN  [k \in 1..num_workers |->
            LET i == k - 1
                start_row == i * chunk_size
            IN  IF i = num_workers - 1
                THEN <<start_row, total_rows - start_row>>
                ELSE <<start_row, chunk_size>>]

\* ------------------------------------------------------------ file system
\* The input files a request may name: a well-formed file, a file whose
\* second data row has a non-numeric energy, and a path that does not exist.
GoodFile == "data/raw/events.csv"
BrokenFile == "data/raw/broken.csv"
AbsentFile == "data/raw/absent.csv"

FileRows(path) ==
    IF path = GoodFile THEN <<RowValid, RowNoise, RowHigh>>
    ELSE <<RowValid, RowBad, RowNoise>>

\* faulty variant of Exists: the path is not looked at
ExistsAny(path) == TRUE

\* Path(input_file).exists()
Exists(path) == path \in {GoodFile, BrokenFile}

\* sum(1 for _ in f) - 1: the lines of the file minus the header
count_data_rows(path) == (Len(FileRows(path)) + 1) - 1

\* the requests submitted: each strategy on each existing file, a missing
\* file, a method that is neither strategy, a single worker process for
\* the whole of the file with the bad row, and worker counts below one
\* (JobSubmitRequest.num_workers is any int)
Request(input_file, n_workers, method) ==
    [input_file |-> input_file, num_workers |-> n_workers, method |-> method]
Requests ==
    {Request(GoodFile, 2, "multiprocessing"), Request(GoodFile, 2, "subprocess"),
     Request(BrokenFile, 2, "multiprocessing"), Request(BrokenFile, 2, "subprocess"),
     Request(AbsentFile, 2, "multiprocessing"), Request(GoodFile, 2, "threading"),
     Request(BrokenFile, 1, "subprocess"),
     Request(GoodFile, 0, "subprocess"),
     Request(GoodFile, 0 - 1, "multiprocessing"), Request(GoodFile, 0 - 1, "subprocess")}

\* ------------------------------------------------------------------ state
VARIABLES
    jobs,        \* JobManager.jobs: job id -> job record
    tasks,       \* execute_job background task of each job: where it stands
    loop,        \* the job whose synchronous code holds the event loop, or None
    artifacts,   \* data/processed/chunks/chunk_<i>.json: i -> None or Some(result)
    clock,       \* datetime.now()
    mergeIn, mergeOut,   \* a run of merge_results: its argument, what came out
    planIn, planOut,     \* a run of split_into_chunks: its arguments, its result
    lock,        \* JobManager.lock: None, or Some(thread) while a thread holds it
    call,        \* the JobManager call the event-loop thread is inside
    held,        \* the ids of the job records a caller holds by reference
    events, position,    \* a run of one EventProcessor: the rows, how many are consumed
    processor,           \* and the EventProcessor itself
    scan         \* a get_active_jobs call made from a second thread

jobVars == <<jobs, tasks, loop, artifacts, clock>>
mergeVars == <<mergeIn, mergeOut>>
planVars == <<planIn, planOut>>
callVars == <<lock, call, held>>
eventVars == <<events, position, processor>>
vars == <<jobs, tasks, loop, artifacts, clock, mergeIn, mergeOut, planIn, planOut,
          lock, call, held, events, position, processor, scan>>

\* the one thread that calls the JobManager: every handler of main.py and
\* execute_job run on the event loop
MainThread == "MainThread"

\* no JobManager call in progress, the lock free, no record held
Idle == [op |-> "none", job_id |-> 0, status |-> "", progress |-> 0, next |-> "return"]
NoCall == lock = None /\ call = Idle /\ held = {}

\* no run of an EventProcessor on its own
NoEvents == events = <<>> /\ position = 0 /\ processor = EventProcessor

\* no get_active_jobs call from a second thread
NoScan == scan = [pc |-> "idle", atStart |-> {}, found |-> <<>>]

PENDING == "pending"
RUNNING == "running"
COMPLETED == "completed"
FAILED == "failed"
CANCELLED == "cancelled"
JobStatus == {PENDING, RUNNING, COMPLETED, FAILED, CANCELLED}

JobIds == 1..MaxJobs

\* ------------------------------------------------------------- JobManager
\* uuid4(): an id no job has had
NewJobId == Cardinality(DOMAIN jobs) + 1

\* faulty variant of create_job: the new job is entered as already running
create_job_running(js, job_id, input_file, n_workers, method, now) ==
    [id \in DOMAIN js \cup {job_id} |->
        IF id = job_id
        THEN [id |-> job_id, input_file |-> input_file, num_workers |-> n_workers,
              method |-> method, status |-> RUNNING, progress |-> 0,
              created_at |-> now, started_at |-> Some(now), completed_at |-> None,
              results |-> None, error |-> None]
        ELSE js[id]]

create_job(js, job_id, input_file, n_workers, method, now) ==
    [id \in DOMAIN js \cup {job_id} |->
        IF id = job_id
        THEN [id |-> job_id, input_file |-> input_file, num_workers |-> n_workers,
              method |-> method, status |-> PENDING, progress |-> 0,
              created_at |-> now, started_at |-> None, completed_at |-> None,
              results |-> None, error |-> None]
        ELSE js[id]]

\* the record itself, or None
get_job(js, job_id) == IF job_id \in DOMAIN js THEN Some(js[job_id]) ELSE None

update_job_status(js, job_id, status, now) ==
    IF job_id \notin DOMAIN js THEN js
    ELSE [js EXCEPT ![job_id] =
            LET j == [@ EXCEPT !.status = status]
            IN  IF status = RUNNING /\ j.started_at = None
                THEN [j EXCEPT !.started_at = Some(now)]
                ELSE IF status \in {COMPLETED, FAILED, CANCELLED}
                THEN [j EXCEPT !.completed_at = Some(now)]
                ELSE j]

Min(a, b) == IF a < b THEN a ELSE b
Max(a, b) == IF a > b THEN a ELSE b

\* faulty variant of update_progress: the value is not stored
update_progress_drop(js, job_id, progress) == js

\* faulty variant of update_progress: the value is stored as it is given
update_progress_raw(js, job_id, progress) ==
    IF job_id \notin DOMAIN js THEN js
    ELSE [js EXCEPT ![job_id].progress = progress]

update_progress(js, job_id, progress) ==
    IF job_id \notin DOMAIN js THEN js
    ELSE [js EXCEPT ![job_id].progress = Min(Max(progress, 0), 10)]

\* faulty variant of complete_job: the results are stored and the status is
\* left as it was
complete_job_quiet(js, job_id, results, now) ==
    IF job_id \notin DOMAIN js THEN js
    ELSE [js EXCEPT ![job_id].results = Some(results),
                    ![job_id].progress = 10,
                    ![job_id].completed_at = Some(now)]

complete_job(js, job_id, results, now) ==
    IF job_id \notin DOMAIN js THEN js
    ELSE [js EXCEPT ![job_id].status = COMPLETED,
                    ![job_id].results = Some(results),
                    ![job_id].progress = 10,
                    ![job_id].completed_at = Some(now)]

\* faulty variant of fail_job: the status is set and the error is not stored
fail_job_silent(js, job_id, error, now) ==
    IF job_id \notin DOMAIN js THEN js
    ELSE [js EXCEPT ![job_id].status = FAILED,
                    ![job_id].completed_at = Some(now)]

\* faulty variant of fail_job: the error is stored and the status left as it was
fail_job_keep(js, job_id, error, now) ==
    IF job_id \notin DOMAIN js THEN js
    ELSE [js EXCEPT ![job_id].error = Some(error),
                    ![job_id].completed_at = Some(now)]

fail_job(js, job_id, error, now) ==
    IF job_id \notin DOMAIN js THEN js
    ELSE [js EXCEPT ![job_id].status = FAILED,
                    ![job_id].error = Some(error),
                    ![job_id].completed_at = Some(now)]

\* clear_completed_jobs: jobs_to_remove.  Time is counted in hours here, so
\* cutoff_time = now - older_than_hours * 3600 seconds is now - older_than_hours
JobsToRemove(js, now, older_than_hours) ==
    LET cutoff_time == now - older_than_hours
    IN  {job_id \in DOMAIN js :
            /\ js[job_id].status \in {COMPLETED, FAILED}
            /\ TheOne(js[job_id].completed_at) < cutoff_time}

\* the registry after clear_completed_jobs(older_than_hours)
clear_completed_jobs(js, now, older_than_hours) ==
    [job_id \in DOMAIN js \ JobsToRemove(js, now, older_than_hours) |-> js[job_id]]

\* what clear_completed_jobs(older_than_hours) returns
ClearedCount(js, now, older_than_hours) ==
    Cardinality(JobsToRemove(js, now, older_than_hours))

\* list(self.jobs.values()): the records in the order they were put in the
\* dict, which is the order of the ids
Values(js) ==
    LET RECURSIVE From(_)
        From(ids) ==
            IF ids = {} THEN <<>>
            ELSE LET first == CHOOSE a \in ids : \A b \in ids : a <= b
                 IN  <<js[first]>> \o From(ids \ {first})
    IN  From(DOMAIN js)

\* `if status:` of an optional string
TruthyStatus(opt) == opt # None /\ TheOne(opt) # ""

\* `if limit:` of an optional integer
TruthyLimit(opt) == opt # None /\ TheOne(opt) # 0

\* faulty variant of SortNewestFirst: the list is left in the order of the dict
SortKeep(list) == list

\* jobs.sort(key=lambda x: x['created_at'], reverse=True): a stable sort, so
\* records created at the same instant keep the order they had
SortNewestFirst(list) ==
    LET RECURSIVE Sorted(_)
        Sorted(k) ==
            IF k = 0 THEN <<>>
            ELSE LET before == Sorted(k - 1)
                     x == list[k]
                     ahead == Cardinality({a \in DOMAIN before :
                                  before[a].created_at >= x.created_at})
                 IN  SubSeq(before, 1, ahead) \o <<x>>
                        \o SubSeq(before, ahead + 1, Len(before))
    IN  Sorted(Len(list))

\* JobManager.list_jobs(status, limit): status and limit are None or Some(v)
list_jobs(js, status, limit) ==
    LET all == Values(js)
        filtered == IF TruthyStatus(status)
                    THEN SelectSeq(all, LAMBDA j : j.status = TheOne(status))
                    ELSE all
        sorted == SortNewestFirst(filtered)
    IN  IF TruthyLimit(limit)
        THEN SubSeq(sorted, 1, Min(TheOne(limit), Len(sorted)))
        ELSE sorted

\* JobManager.get_active_jobs(): two calls of list_jobs, one after the other
get_active_jobs(js) ==
    LET running == list_jobs(js, Some(RUNNING), None)
        pending == list_jobs(js, Some(PENDING), None)
    IN  running \o pending

\* ---------------------------------------------------------- ComputeEngine

\* pool.map's list: the units' results in chunk order
RECURSIVE PoolResults(_, _, _)
PoolResults(partials, i, n) ==
    IF i >= n THEN <<>> ELSE <<partials[i]>> \o PoolResults(partials, i + 1, n)

\* the collect loop of _process_subprocess: the artifacts that exist, in
\* chunk order; a missing artifact is passed over
RECURSIVE CollectArtifacts(_, _, _)
CollectArtifacts(files, i, n) ==
    IF i >= n THEN <<>>
    ELSE (IF files[i] # None THEN <<TheOne(files[i])>> ELSE <<>>)
           \o CollectArtifacts(files, i + 1, n)

FinalResults(partials, method, n_workers) ==
    LET m == merge_results(partials)
    IN  [f \in DOMAIN m \cup {"method", "num_workers"} |->
            IF f = "method" THEN method
            ELSE IF f = "num_workers" THEN n_workers
            ELSE m[f]]

\* background_tasks.add_task(execute_job, job_id=..., input_file=..., ...):
\* the task with its own copy of the arguments, not yet started; reported
\* lists the values the engine has passed to progress_callback
NewTask(job_id, request) ==
    [pc |-> "scheduled", job_id |-> job_id, input_file |-> request.input_file,
     num_workers |-> request.num_workers, method |-> request.method,
     chunks |-> <<>>, launched |-> {}, exited |-> {}, raised |-> {},
     partials |-> <<>>, reported |-> <<>>]

ChunkIds(t) == {k - 1 : k \in DOMAIN t.chunks}

LoopFree == loop = None

\* ------------------------------------------------------------ API handlers
\* POST /jobs/submit: create_job, then the background task is registered
submit_job(request) ==
    /\ LoopFree
    /\ NewJobId \in JobIds
    /\ jobs' = create_job(jobs, NewJobId, request.input_file, request.num_workers,
                          request.method, clock)
    /\ tasks' = [id \in DOMAIN tasks \cup {NewJobId} |->
                    IF id = NewJobId THEN NewTask(NewJobId, request) ELSE tasks[id]]
    /\ UNCHANGED <<loop, artifacts, clock, mergeVars, planVars, callVars, eventVars, scan>>

\* faulty variant of CancelCode: cancel_job refusing only a job that is already cancelled
CancelCodeLax(job_id) ==
    LET job == get_job(jobs, job_id)
    IN  IF job = None THEN 404
        ELSE IF TheOne(job).status = CANCELLED THEN 400
        ELSE 200

\* what DELETE /jobs/{job_id} answers in the current state
CancelCode(job_id) ==
    LET job == get_job(jobs, job_id)
    IN  IF job = None THEN 404
        ELSE IF TheOne(job).status \notin {PENDING, RUNNING} THEN 400
        ELSE 200

\* the registry after DELETE /jobs/{job_id} has been handled
Cancelled(job_id) ==
    IF CancelCode(job_id) = 200
    THEN update_job_status(jobs, job_id, CANCELLED, clock)
    ELSE jobs

\* DELETE /jobs/{job_id}
cancel_job(job_id) ==
    /\ LoopFree
    /\ jobs' = Cancelled(job_id)
    /\ UNCHANGED <<tasks, loop, artifacts, clock, mergeVars, planVars, callVars, eventVars, scan>>

\* faulty variant of StatusCode: get_job_status answering for any id
StatusCodeAny(job_id) == 200

\* what GET /jobs/{job_id}/status answers in the current state
StatusCode(job_id) ==
    LET job == get_job(jobs, job_id)
    IN  IF job = None THEN 404 ELSE 200

\* the JobStatusResponse of GET /jobs/{job_id}/status when it answers 200
StatusResponse(job_id) ==
    LET job == TheOne(get_job(jobs, job_id))
    IN  [job_id |-> job.id, status |-> job.status, progress |-> job.progress,
         created_at |-> job.created_at, started_at |-> job.started_at,
         completed_at |-> job.completed_at, error |-> job.error]

\* GET /jobs/{job_id}/status
get_job_status(job_id) ==
    /\ LoopFree
    /\ StatusCode(job_id) \in {200, 404}
    /\ UNCHANGED <<jobs, tasks, loop, artifacts, clock, mergeVars, planVars, callVars, eventVars, scan>>

\* faulty variant of ResultCode: get_job_result refusing only a job that is pending or running
ResultCodeLax(job_id) ==
    LET job == get_job(jobs, job_id)
    IN  IF job = None THEN 404
        ELSE IF TheOne(job).status \in {PENDING, RUNNING} THEN 400
        ELSE 200

\* what GET /jobs/{job_id}/result answers in the current state
ResultCode(job_id) ==
    LET job == get_job(jobs, job_id)
    IN  IF job = None THEN 404
        ELSE IF TheOne(job).status \notin {COMPLETED, FAILED} THEN 400
        ELSE 200

\* the JobResultResponse of GET /jobs/{job_id}/result when it answers 200
ResultResponse(job_id) ==
    LET job == TheOne(get_job(jobs, job_id))
    IN  [job_id |-> job.id, status |-> job.status,
         results |-> job.results, error |-> job.error]

\* GET /jobs/{job_id}/result
get_job_result(job_id) ==
    /\ LoopFree
    /\ ResultCode(job_id) \in {200, 400, 404}
    /\ UNCHANGED <<jobs, tasks, loop, artifacts, clock, mergeVars, planVars, callVars, eventVars, scan>>

\* ------------------------------------------------------------ execute_job
\* The background task runs on the event loop, as the API handlers do.
\* Between two awaits that really suspend, nothing else runs on the loop:
\* execute_job holds it up to the run_in_executor await, and through the
\* whole of _process_subprocess, which never suspends (Popen and
\* proc.wait() block).  loop names the task that holds it.

\* the query parameters of GET /jobs: a status name or none, a limit or none
Filters == {None} \cup {Some(status) : status \in JobStatus}
Limits == {None} \cup {Some(limit) : limit \in 0..(MaxJobs + 1)}

\* the list of JobStatusResponse that GET /jobs answers in the current state
ListResponse(status, limit) ==
    LET listed == list_jobs(jobs, status, limit)
    IN  [k \in DOMAIN listed |->
            [job_id |-> listed[k].id, status |-> listed[k].status,
             progress |-> listed[k].progress, created_at |-> listed[k].created_at,
             started_at |-> listed[k].started_at,
             completed_at |-> listed[k].completed_at, error |-> listed[k].error]]

\* GET /jobs
list_jobs_api(status, limit) ==
    /\ LoopFree
    /\ Len(ListResponse(status, limit)) <= Cardinality(DOMAIN jobs)
    /\ UNCHANGED <<jobs, tasks, loop, artifacts, clock, mergeVars, planVars, callVars, eventVars, scan>>

\* what GET /stats answers in the current state
StatsResponse ==
    LET all_jobs == list_jobs(jobs, None, None)
    IN  [total_jobs |-> Len(all_jobs),
         by_status |-> [status \in {all_jobs[k].status : k \in DOMAIN all_jobs} |->
                           Cardinality({k \in DOMAIN all_jobs : all_jobs[k].status = status})],
         active_jobs |-> Len(get_active_jobs(jobs))]

\* GET /stats
get_stats ==
    /\ LoopFree
    /\ StatsResponse.total_jobs = Cardinality(DOMAIN jobs)
    /\ UNCHANGED <<jobs, tasks, loop, artifacts, clock, mergeVars, planVars, callVars, eventVars, scan>>

FileNotFound == "Input file not found"
UnknownMethod == "Unknown method"
ValueError == "could not convert string to float"
ZeroDivisionError == "integer division or modulo by zero"
PoolSizeError == "Number of processes must be at least 1"

\* execute_job is entered: the job is marked running
execute_job(job_id) ==
    /\ LoopFree
    /\ job_id \in DOMAIN tasks
    /\ tasks[job_id].pc = "scheduled"
    /\ jobs' = update_job_status(jobs, job_id, RUNNING, clock)
    /\ tasks' = [tasks EXCEPT ![job_id].pc = "started"]
    /\ loop' = Some(job_id)
    /\ UNCHANGED <<artifacts, clock, mergeVars, planVars, callVars, eventVars, scan>>

\* process_events from its first line to the first suspension, or to the
\* exception that execute_job turns into fail_job
process_events(job_id) ==
    /\ loop = Some(job_id)
    /\ tasks[job_id].pc = "started"
    /\ LET job == tasks[job_id]
           planned == split_into_chunks(count_data_rows(job.input_file), job.num_workers)
           counted == update_progress(jobs, job_id, 1)
       IN  IF ~Exists(job.input_file)
           THEN /\ jobs' = fail_job(jobs, job_id, FileNotFound, clock)
                /\ tasks' = [tasks EXCEPT ![job_id].pc = "done"]
                /\ loop' = None
           ELSE IF DivisionByZero(job.num_workers)
           THEN /\ jobs' = fail_job(jobs, job_id, ZeroDivisionError, clock)
                /\ tasks' = [tasks EXCEPT ![job_id].pc = "done"]
                /\ loop' = None
           ELSE IF job.method = "multiprocessing"
           THEN /\ jobs' = update_progress(counted, job_id, 3)
                /\ tasks' = [tasks EXCEPT ![job_id].pc = "pool",
                                          ![job_id].chunks = planned,
                                          ![job_id].reported = @ \o <<1, 3>>]
                /\ loop' = None
           ELSE IF job.method = "subprocess" /\ Len(planned) = 0
           THEN \* no chunk: the launch loop has nothing to launch
                /\ jobs' = update_progress(counted, job_id, 3)
                /\ tasks' = [tasks EXCEPT ![job_id].pc = "wait",
                                          ![job_id].chunks = planned,
                                          ![job_id].reported = @ \o <<1, 3>>]
                /\ loop' = loop
           ELSE IF job.method = "subprocess"
           THEN /\ jobs' = counted
                /\ tasks' = [tasks EXCEPT ![job_id].pc = "launch",
                                          ![job_id].chunks = planned,
                                          ![job_id].reported = @ \o <<1>>]
                /\ loop' = loop
           ELSE /\ jobs' = fail_job(counted, job_id, UnknownMethod, clock)
                /\ tasks' = [tasks EXCEPT ![job_id].pc = "done",
                                          ![job_id].reported = @ \o <<1>>]
                /\ loop' = None
    /\ UNCHANGED <<artifacts, clock, mergeVars, planVars, callVars, eventVars, scan>>

\* one unit of the multiprocessing.Pool takes a chunk and processes it; the
\* pool runs in an executor thread, beside the event loop
pool_unit(job_id, i) ==
    /\ job_id \in DOMAIN tasks
    /\ tasks[job_id].pc = "pool"
    /\ i \in ChunkIds(tasks[job_id]) \ tasks[job_id].exited
    /\ LET t == tasks[job_id]
           r == process_chunk_worker(FileRows(t.input_file),
                                     t.chunks[i + 1][1], t.chunks[i + 1][2], i)
       IN  tasks' = [tasks EXCEPT
                ![job_id].launched = @ \cup {i},
                ![job_id].exited = @ \cup {i},
                ![job_id].raised = IF IsFail(r) THEN @ \cup {i} ELSE @,
                ![job_id].partials =
                    IF IsFail(r) THEN @
                    ELSE [x \in DOMAIN @ \cup {i} |-> IF x = i THEN r ELSE @[x]]]
    /\ UNCHANGED <<jobs, loop, artifacts, clock, mergeVars, planVars, callVars, eventVars, scan>>

\* Pool(processes=num_workers) has raised ValueError (num_workers < 1), or
\* pool.map has returned or raised (it does either only once every chunk
\* is done), and execute_job resumes on the event loop
execute_job_resume(job_id) ==
    /\ LoopFree
    /\ job_id \in DOMAIN tasks
    /\ tasks[job_id].pc = "pool"
    /\ tasks[job_id].exited = ChunkIds(tasks[job_id])
    /\ LET t == tasks[job_id]
           n == Len(t.chunks)
           results == FinalResults(PoolResults(t.partials, 0, n),
                                   "multiprocessing", t.num_workers)
           merging == update_progress(jobs, job_id, 8)
           finished == update_progress(merging, job_id, 10)
       IN  jobs' = IF t.num_workers < 1
                   THEN fail_job(jobs, job_id, PoolSizeError, clock)
                   ELSE IF t.raised # {}
                   THEN fail_job(jobs, job_id, ValueError, clock)
                   ELSE complete_job(finished, job_id, results, clock)
    /\ tasks' = [tasks EXCEPT ![job_id].pc = "done",
                              ![job_id].reported =
                                  IF tasks[job_id].num_workers < 1 \/ tasks[job_id].raised # {}
                                  THEN @ ELSE @ \o <<8, 10>>]
    /\ UNCHANGED <<loop, artifacts, clock, mergeVars, planVars, callVars, eventVars, scan>>

\* the launch loop of _process_subprocess: Popen for the next chunk; after
\* the last one, progress 0.3
launch_worker(job_id) ==
    /\ loop = Some(job_id)
    /\ tasks[job_id].pc = "launch"
    /\ LET t == tasks[job_id]
           i == Cardinality(t.launched)
           n == Len(t.chunks)
       IN  /\ tasks' = [tasks EXCEPT ![job_id].launched = @ \cup {i},
                                     ![job_id].pc = IF i + 1 = n THEN "wait" ELSE @,
                                     ![job_id].reported =
                                         IF i + 1 = n THEN @ \o <<3>> ELSE @]
           /\ jobs' = IF i + 1 = n THEN update_progress(jobs, job_id, 3) ELSE jobs
    /\ UNCHANGED <<loop, artifacts, clock, mergeVars, planVars, callVars, eventVars, scan>>

\* worker.py run as its own process: it writes its artifact and exits, or
\* dies on a row it cannot parse and writes nothing
worker_process(job_id, i) ==
    /\ job_id \in DOMAIN tasks
    /\ i \in tasks[job_id].launched \ tasks[job_id].exited
    /\ tasks[job_id].pc \in {"launch", "wait"}
    /\ LET t == tasks[job_id]
           r == worker_main(FileRows(t.input_file),
                            t.chunks[i + 1][1], t.chunks[i + 1][2], i)
       IN  /\ tasks' = [tasks EXCEPT ![job_id].exited = @ \cup {i},
                                     ![job_id].raised = IF IsFail(r) THEN @ \cup {i} ELSE @]
           /\ artifacts' = IF IsFail(r) THEN artifacts
                           ELSE [artifacts EXCEPT ![i] = Some(r)]
    /\ UNCHANGED <<jobs, loop, clock, mergeVars, planVars, callVars, eventVars, scan>>

\* faulty variant of wait_workers: the wait loop does not wait
wait_workers_early(job_id) ==
    /\ loop = Some(job_id)
    /\ tasks[job_id].pc = "wait"
    /\ tasks' = [tasks EXCEPT ![job_id].pc = "collect",
                              ![job_id].reported = @ \o <<7>>]
    /\ jobs' = update_progress(jobs, job_id, 7)
    /\ UNCHANGED <<loop, artifacts, clock, mergeVars, planVars, callVars, eventVars, scan>>

\* the wait loop: proc.wait() for every process, then progress 0.7
wait_workers(job_id) ==
    /\ loop = Some(job_id)
    /\ tasks[job_id].pc = "wait"
    /\ tasks[job_id].exited = ChunkIds(tasks[job_id])
    /\ tasks' = [tasks EXCEPT ![job_id].pc = "collect",
                              ![job_id].reported = @ \o <<7>>]
    /\ jobs' = update_progress(jobs, job_id, 7)
    /\ UNCHANGED <<loop, artifacts, clock, mergeVars, planVars, callVars, eventVars, scan>>

\* the collect loop, the merge, the return to execute_job and complete_job
collect_results(job_id) ==
    /\ loop = Some(job_id)
    /\ tasks[job_id].pc = "collect"
    /\ LET t == tasks[job_id]
           n == Len(t.chunks)
           results == FinalResults(CollectArtifacts(artifacts, 0, n),
                                   "subprocess", t.num_workers)
           collected == update_progress(jobs, job_id, 9)
           finished == update_progress(collected, job_id, 10)
       IN  jobs' = complete_job(finished, job_id, results, clock)
    /\ tasks' = [tasks EXCEPT ![job_id].pc = "done",
                              ![job_id].reported = @ \o <<9, 10>>]
    /\ loop' = None
    /\ UNCHANGED <<artifacts, clock, mergeVars, planVars, callVars, eventVars, scan>>

\* time passes
Tick ==
    /\ clock < MaxClock
    /\ clock' = clock + 1
    /\ UNCHANGED <<jobs, tasks, loop, artifacts, mergeVars, planVars, callVars, eventVars, scan>>

\* ----------------------------------------------------------- the service
ArtifactIds == 0..1

NoMerge == [kind |-> "none", value |-> None]
NoPlan == [total_rows |-> 0, num_workers |-> 1]

InitJobs ==
    /\ jobs = <<>>
    /\ tasks = <<>>
    /\ loop = None
    /\ artifacts = [i \in ArtifactIds |-> None]
    /\ clock = 0

Init ==
    /\ InitJobs
    /\ mergeIn = <<>>
    /\ mergeOut = NoMerge
    /\ planIn = NoPlan
    /\ planOut = <<>>
    /\ NoCall
    /\ NoEvents
    /\ NoScan

Next ==
    \/ \E request \in Requests : submit_job(request)
    \/ \E job_id \in JobIds : cancel_job(job_id)
    \/ \E job_id \in JobIds : get_job_status(job_id)
    \/ \E job_id \in JobIds : get_job_result(job_id)
    \/ \E status \in Filters, limit \in Limits : list_jobs_api(status, limit)
    \/ get_stats
    \/ \E job_id \in JobIds : execute_job(job_id)
    \/ \E job_id \in JobIds : process_events(job_id)
    \/ \E job_id \in JobIds, i \in ArtifactIds : pool_unit(job_id, i)
    \/ \E job_id \in JobIds : execute_job_resume(job_id)
    \/ \E job_id \in JobIds : launch_worker(job_id)
    \/ \E job_id \in JobIds, i \in ArtifactIds : worker_process(job_id, i)
    \/ \E job_id \in JobIds : wait_workers(job_id)
    \/ \E job_id \in JobIds : collect_results(job_id)

\* the service with every timestamp taken at the same instant
Spec == Init /\ [][Next]_vars

\* the service with time passing between the steps
NextTimed == Next \/ Tick
SpecTimed == Init /\ [][NextTimed]_vars

\* what runs without a request: the background task of a job whenever the
\* event loop gives it a turn, the pool's units and the worker processes
Background(job_id) ==
    \/ execute_job(job_id)
    \/ process_events(job_id)
    \/ \E i \in ArtifactIds : pool_unit(job_id, i)
    \/ execute_job_resume(job_id)
    \/ launch_worker(job_id)
    \/ \E i \in ArtifactIds : worker_process(job_id, i)
    \/ wait_workers(job_id)
    \/ collect_results(job_id)

\* the service when the event loop keeps running its ready tasks and every
\* pool unit and worker process comes to an end: as long as some background
\* step can be taken, one is taken
SpecLive == Spec /\ WF_vars(\E job_id \in JobIds : Background(job_id))

\* ------------------------------------------------- runs of merge_results
\* the partial results merged: what the units return for these row ranges
PartialPool ==
    {worker_main(rows, 0, Len(rows), 0) :
        rows \in {<<>>, <<RowValid>>, <<RowNoise>>, <<RowNoise, RowHigh>>,
                  <<RowEdge, RowNoise>>}}

PartialLists == UNION {[1..n -> PartialPool] : n \in 0..MaxPartials}

Orders(n) == {p \in [1..n -> 1..n] : \A a, b \in 1..n : p[a] = p[b] => a = b}
Permute(list, p) == [k \in 1..Len(list) |-> list[p[k]]]

InitMerge ==
    /\ InitJobs
    /\ mergeIn \in PartialLists
    /\ mergeOut = NoMerge
    /\ planIn = NoPlan
    /\ planOut = <<>>
    /\ NoCall
    /\ NoEvents
    /\ NoScan

\* merge_results(partial_results)
MergeWhole ==
    /\ mergeOut = NoMerge
    /\ mergeOut' = [kind |-> "whole", value |-> Some(merge_results(mergeIn))]
    /\ UNCHANGED <<jobVars, mergeIn, planVars, callVars, eventVars, scan>>

\* merge_results of the same partial results in another order
MergePermuted(p) ==
    /\ mergeOut = NoMerge
    /\ mergeOut' = [kind |-> "permuted",
                    value |-> Some(merge_results(Permute(mergeIn, p)))]
    /\ UNCHANGED <<jobVars, mergeIn, planVars, callVars, eventVars, scan>>

\* merge_results of the merges of two sub-collections, neither empty
MergeGrouped(p, k) ==
    /\ mergeOut = NoMerge
    /\ LET list == Permute(mergeIn, p)
           left == merge_results(SubSeq(list, 1, k))
           right == merge_results(SubSeq(list, k + 1, Len(list)))
       IN  mergeOut' = [kind |-> "grouped",
                        value |-> Some(merge_results(<<left, right>>))]
    /\ UNCHANGED <<jobVars, mergeIn, planVars, callVars, eventVars, scan>>

NextMerge ==
    \/ MergeWhole
    \/ \E p \in Orders(Len(mergeIn)) : MergePermuted(p)
    \/ \E p \in Orders(Len(mergeIn)), k \in 1..(Len(mergeIn) - 1) : MergeGrouped(p, k)

SpecMerge == InitMerge /\ [][NextMerge]_vars

\* --------------------------------------------- runs of split_into_chunks
InitPlan ==
    /\ InitJobs
    /\ mergeIn = <<>>
    /\ mergeOut = NoMerge
    /\ planIn \in [total_rows : 0..MaxRows, num_workers : 1..MaxWorkers]
    /\ planOut = <<>>
    /\ NoCall
    /\ NoEvents
    /\ NoScan

Plan ==
    /\ planOut = <<>>
    /\ planOut' = split_into_chunks(planIn.total_rows, planIn.num_workers)
    /\ UNCHANGED <<jobVars, mergeVars, planIn, callVars, eventVars, scan>>

NextPlan == Plan

SpecPlan == InitPlan /\ [][NextPlan]_vars

\* ------------------------------------------- runs of clear_completed_jobs
\* A JobManager on its own, in hours: a registry of jobs each brought to a
\* status at some hour by the JobManager's own methods, and then swept.
\* (The service never calls clear_completed_jobs.)
SweptResults ==
    FinalResults(<<process_chunk_worker(FileRows(GoodFile), 0, 3, 0)>>,
                 "multiprocessing", 1)

\* the record of job job_id after create_job and the calls that bring it
\* to status at hour at
JobAt(job_id, status, at) ==
    LET created == create_job(<<>>, job_id, GoodFile, 1, "multiprocessing", 0)
        running == update_job_status(created, job_id, RUNNING, 0)
    IN  (CASE status = PENDING -> created
           [] status = RUNNING -> running
           [] status = COMPLETED -> complete_job(running, job_id, SweptResults, at)
           [] status = FAILED -> fail_job(running, job_id, ValueError, at)
           [] status = CANCELLED -> update_job_status(created, job_id, CANCELLED, at))[job_id]

Ages == 0..MaxClock

InitSweep ==
    /\ clock \in 0..MaxClock
    /\ \E n \in 0..MaxJobs :
           jobs \in {[job_id \in 1..n |-> JobAt(job_id, shape[job_id][1], shape[job_id][2])] :
                        shape \in [1..n -> JobStatus \X (0..clock)]}
    /\ tasks = <<>>
    /\ loop = None
    /\ artifacts = [i \in ArtifactIds |-> None]
    /\ mergeIn = <<>>
    /\ mergeOut = NoMerge
    /\ planIn = NoPlan
    /\ planOut = <<>>
    /\ NoCall
    /\ NoEvents
    /\ NoScan

\* job_manager.clear_completed_jobs(older_than_hours)
sweepOlderThan(older_than_hours) ==
    /\ jobs' = clear_completed_jobs(jobs, clock, older_than_hours)
    /\ UNCHANGED <<tasks, loop, artifacts, clock, mergeVars, planVars, callVars, eventVars, scan>>

NextSweep == \E older_than_hours \in Ages : sweepOlderThan(older_than_hours)

SpecSweep == InitSweep /\ [][NextSweep]_vars

\* -------------------------------------------------------- runs of list_jobs
\* A registry as the JobManager's methods leave it: the jobs were created one
\* after the other, so a later id was not created before an earlier one.
\* the record of job job_id created at hour created and brought to status at
\* hour at
JobMade(job_id, created, status, at) ==
    LET made == create_job(<<>>, job_id, GoodFile, 1, "multiprocessing", created)
        running == update_job_status(made, job_id, RUNNING, created)
    IN  (CASE status = PENDING -> made
           [] status = RUNNING -> running
           [] status = COMPLETED -> complete_job(running, job_id, SweptResults, at)
           [] status = FAILED -> fail_job(running, job_id, ValueError, at)
           [] status = CANCELLED -> update_job_status(made, job_id, CANCELLED, at))[job_id]

\* the registries of n jobs up to hour now
Registries(n, now) ==
    {[job_id \in 1..n |->
        JobMade(job_id, shape[job_id][1], shape[job_id][2], shape[job_id][3])] :
            shape \in {sh \in [1..n -> (0..now) \X JobStatus \X (0..now)] :
                         /\ \A a \in 1..n : sh[a][1] <= sh[a][3]
                         /\ \A a, b \in 1..n : a <= b => sh[a][1] <= sh[b][1]}}

InitList ==
    /\ clock \in 0..MaxClock
    /\ \E n \in 0..MaxJobs : jobs \in Registries(n, clock)
    /\ tasks = <<>>
    /\ loop = None
    /\ artifacts = [i \in ArtifactIds |-> None]
    /\ mergeIn = <<>>
    /\ mergeOut = NoMerge
    /\ planIn = NoPlan
    /\ planOut = <<>>
    /\ NoCall
    /\ NoEvents
    /\ NoScan

NextList == \E status \in Filters, limit \in Limits : list_jobs_api(status, limit)

SpecList == InitList /\ [][NextList]_vars

\* --------------------------------------------------- runs of update_progress
\* the values update_progress is called with, in tenths: below 0, from 0 to
\* 1, above 1
ProgressInputs == {0 - 3, 0, 4, 10, 13}

InitProgress ==
    /\ clock = 0
    /\ \E n \in 0..MaxJobs : jobs \in Registries(n, 0)
    /\ tasks = <<>>
    /\ loop = None
    /\ artifacts = [i \in ArtifactIds |-> None]
    /\ mergeIn = <<>>
    /\ mergeOut = NoMerge
    /\ planIn = NoPlan
    /\ planOut = <<>>
    /\ NoCall
    /\ NoEvents
    /\ NoScan

\* job_manager.update_progress(job_id, progress)
setProgress(job_id, progress) ==
    /\ jobs' = update_progress(jobs, job_id, progress)
    /\ UNCHANGED <<tasks, loop, artifacts, clock, mergeVars, planVars, callVars, eventVars, scan>>

NextProgress ==
    \E job_id \in JobIds, progress \in ProgressInputs : setProgress(job_id, progress)

SpecProgress == InitProgress /\ [][NextProgress]_vars

\* ------------------------------------------- calls of the JobManager, by step
\* The JobManager with the calls main.py makes of it, each in two steps: the
\* thread enters `with self.lock:`, then runs the body and leaves it.
\* call.status and call.progress are the arguments of the call in progress;
\* call.next is what the caller does after it ("return": the caller is done).
CallJobIds == 1..MaxCallJobs

\* `with self.lock:` entered by a caller that is at `from`
with_lock(op, job_id, status, progress, next, from) ==
    /\ call.op = from
    /\ lock = None
    /\ lock' = Some(MainThread)
    /\ call' = [op |-> op, job_id |-> job_id, status |-> status,
                progress |-> progress, next |-> next]
    /\ UNCHANGED <<jobVars, mergeVars, planVars, held, eventVars, scan>>

\* the registry after the body of the call c
CallEffect(c) ==
    CASE c.op = "create_job" ->
             create_job(jobs, NewJobId, GoodFile, 1, "multiprocessing", clock)
      [] c.op = "update_job_status" -> update_job_status(jobs, c.job_id, c.status, clock)
      [] c.op = "update_progress" -> update_progress(jobs, c.job_id, c.progress)
      [] c.op = "complete_job" -> complete_job(jobs, c.job_id, SweptResults, clock)
      [] c.op = "fail_job" -> fail_job(jobs, c.job_id, ValueError, clock)
      [] OTHER -> jobs

\* the records the call c returns: get_job returns self.jobs.get(job_id) and
\* list_jobs a list of the dict's values, the registry's own dicts, which are
\* never replaced while the job is in the registry; so each is told by its id
CallReturn(c) ==
    LET listed == list_jobs(jobs, IF c.status = "" THEN None ELSE Some(c.status), None)
    IN  CASE c.op = "get_job" -> DOMAIN jobs \cap {c.job_id}
          [] c.op = "list_jobs" -> {listed[k].id : k \in DOMAIN listed}
          [] OTHER -> {}

\* the body of the with block, and the lock released on leaving it; a
\* caller that asked for records now holds them, health_check only counts them
end_with ==
    /\ lock = Some(MainThread)
    /\ jobs' = CallEffect(call)
    /\ held' = IF call.op \in {"get_job", "list_jobs"} /\ call.next = "return"
               THEN CallReturn(call)
               ELSE held
    /\ lock' = None
    /\ call' = [Idle EXCEPT !.op = IF call.next = "return" THEN "none" ELSE call.next]
    /\ UNCHANGED <<tasks, loop, artifacts, clock, mergeVars, planVars, eventVars, scan>>

\* main.health_check, its last read: len(job_manager.jobs)
health_total ==
    /\ call.op = "health_total"
    /\ Cardinality(DOMAIN jobs) <= MaxCallJobs
    /\ call' = Idle
    /\ UNCHANGED <<jobVars, mergeVars, planVars, lock, held, eventVars, scan>>

\* what a caller reads in a record it holds: the dict it was given is the
\* one the registry keeps for the job, no copy is made
HeldValue(job_id) == jobs[job_id]

NextCalls ==
    \/ /\ Cardinality(DOMAIN jobs) < MaxCallJobs
       /\ with_lock("create_job", 0, "", 0, "return", "none")
    \/ \E job_id \in CallJobIds : with_lock("get_job", job_id, "", 0, "return", "none")
    \/ \E job_id \in CallJobIds, status \in {RUNNING, CANCELLED} :
           with_lock("update_job_status", job_id, status, 0, "return", "none")
    \/ \E job_id \in CallJobIds, progress \in ProgressInputs :
           with_lock("update_progress", job_id, "", progress, "return", "none")
    \/ \E job_id \in CallJobIds : with_lock("complete_job", job_id, "", 0, "return", "none")
    \/ \E job_id \in CallJobIds : with_lock("fail_job", job_id, "", 0, "return", "none")
    \/ \E status \in JobStatus \cup {""} :
           with_lock("list_jobs", 0, status, 0, "return", "none")
    \/ with_lock("list_jobs", 0, RUNNING, 0, "health_pending", "none")
    \/ with_lock("list_jobs", 0, PENDING, 0, "health_total", "health_pending")
    \/ end_with
    \/ health_total

SpecCalls == Init /\ [][NextCalls]_vars

\* ------------------------------- the JobManager called from two threads
\* The JobManager guards its registry with a threading.Lock, for callers on
\* more than one thread.  Here one thread creates jobs and sets them running
\* (calls in two steps, as above) while a second thread is inside
\* get_active_jobs, which is list_jobs(RUNNING) + list_jobs(PENDING): two
\* with-blocks, the lock free between them.  (The service as built makes
\* every call from the event-loop thread.)
OtherThread == "Thread-2"

IdsOf(listed) == [k \in DOMAIN listed |-> listed[k].id]

\* the jobs that are pending or running
ActiveIds == {job_id \in DOMAIN jobs : jobs[job_id].status \in {PENDING, RUNNING}}

\* get_active_jobs called; list_jobs(RUNNING) enters its with-block
scan_running_lock ==
    /\ scan.pc \in {"idle", "done"}
    /\ lock = None
    /\ lock' = Some(OtherThread)
    /\ scan' = [pc |-> "running", atStart |-> ActiveIds, found |-> <<>>]
    /\ UNCHANGED <<jobVars, mergeVars, planVars, call, held, eventVars>>

\* the body of list_jobs(RUNNING), and the lock released
scan_running ==
    /\ scan.pc = "running"
    /\ lock = Some(OtherThread)
    /\ scan' = [scan EXCEPT !.pc = "between",
                            !.found = IdsOf(list_jobs(jobs, Some(RUNNING), None))]
    /\ lock' = None
    /\ UNCHANGED <<jobVars, mergeVars, planVars, call, held, eventVars>>

\* list_jobs(PENDING) enters its with-block
scan_pending_lock ==
    /\ scan.pc = "between"
    /\ lock = None
    /\ lock' = Some(OtherThread)
    /\ scan' = [scan EXCEPT !.pc = "pending"]
    /\ UNCHANGED <<jobVars, mergeVars, planVars, call, held, eventVars>>

\* the body of list_jobs(PENDING), the lock released, and the two lists
\* joined: get_active_jobs returns
scan_pending ==
    /\ scan.pc = "pending"
    /\ lock = Some(OtherThread)
    /\ scan' = [scan EXCEPT !.pc = "done",
                            !.found = @ \o IdsOf(list_jobs(jobs, Some(PENDING), None))]
    /\ lock' = None
    /\ UNCHANGED <<jobVars, mergeVars, planVars, call, held, eventVars>>

NextThreads ==
    \/ /\ Cardinality(DOMAIN jobs) < MaxJobs
       /\ with_lock("create_job", 0, "", 0, "return", "none")
    \/ \E job_id \in JobIds :
           with_lock("update_job_status", job_id, RUNNING, 0, "return", "none")
    \/ end_with
    \/ scan_running_lock
    \/ scan_running
    \/ scan_pending_lock
    \/ scan_pending

SpecThreads == Init /\ [][NextThreads]_vars

\* ------------------------------------------- runs of one EventProcessor
\* the rows float() accepts
WellFormedRows == {RowValid, RowNoise, RowEdge, RowHigh}

InitEvents ==
    /\ InitJobs
    /\ mergeIn = <<>>
    /\ mergeOut = NoMerge
    /\ planIn = NoPlan
    /\ planOut = <<>>
    /\ NoCall
    /\ events \in UNION {[1..n -> WellFormedRows] : n \in 0..MaxEvents}
    /\ position = 0
    /\ processor = EventProcessor
    /\ NoScan

\* processor.process_event(row) for the next row
consume ==
    /\ position < Len(events)
    /\ processor' = process_event(processor, events[position + 1])
    /\ position' = position + 1
    /\ UNCHANGED <<jobVars, mergeVars, planVars, callVars, events, scan>>

NextEvents == consume

SpecEvents == InitEvents /\ [][NextEvents]_vars

\* ================================================================ claims
Terminal == {COMPLETED, FAILED, CANCELLED}

LegalTransitions ==
    {<<PENDING, RUNNING>>, <<PENDING, CANCELLED>>, <<RUNNING, COMPLETED>>,
     <<RUNNING, FAILED>>, <<RUNNING, CANCELLED>>}

\* C1: every change of a job's status is one of Pending->Running,
\* Pending->Cancelled, Running->Completed, Running->Failed,
\* Running->Cancelled; any other requested change leaves the status as it was.
C1_OnlyLegalTransitions ==
    [][\A j \in DOMAIN jobs :
          jobs'[j].status # jobs[j].status
              => <<jobs[j].status, jobs'[j].status>> \in LegalTransitions]_vars

\* C2: once a job's status is Completed, Failed or Cancelled it never
\* changes again, under every interleaving of submit, execute_job and cancel.
C2_TerminalIsFinal ==
    [][\A j \in DOMAIN jobs :
          jobs[j].status \in Terminal => jobs'[j].status = jobs[j].status]_vars

\* a job that was cancelled while Pending: cancelled, and never started
CancelledPending(js, j) ==
    /\ j \in DOMAIN js
    /\ js[j].status = CANCELLED
    /\ js[j].started_at = None

\* C3: a cancel accepted for a Pending job makes it Cancelled, and from then
\* on the job is never started, never acquires results, and result(job_id)
\* keeps failing with JobNotReady (400).
C3_CancelledPendingStays ==
    [][\A j \in JobIds :
          /\ (cancel_job(j) /\ j \in DOMAIN jobs /\ jobs[j].status = PENDING)
                 => CancelledPending(jobs', j)
          /\ CancelledPending(jobs, j)
                 => /\ CancelledPending(jobs', j)
                    /\ jobs'[j].results = None
                    /\ ResultCode(j)' = 400]_vars

\* a job whose cancel was accepted while it was Running
CancelledRunning(j) ==
    /\ j \in DOMAIN jobs
    /\ jobs[j].status = CANCELLED
    /\ tasks[j].pc # "scheduled"

\* C4: after a cancel is accepted for a Running job no further chunk is
\* handed to a pool unit or worker process, and no results are stored.
C4_CancelStopsDispatch ==
    [][\A j \in JobIds :
          CancelledRunning(j)
              => /\ tasks'[j].launched = tasks[j].launched
                 /\ jobs'[j].results = None]_vars

\* C5: cancel changes a job only when its status is Pending or Running at
\* the moment of the write, and then sets status Cancelled and completed_at
\* only; for a terminal job it answers 400 and changes nothing; and no step
\* of any interleaving turns a Completed or Failed job into a Cancelled one.
C5_CancelOnlyActive ==
    /\ [](\A j \in DOMAIN jobs :
             IF jobs[j].status \in {PENDING, RUNNING}
             THEN /\ CancelCode(j) = 200
                  /\ Cancelled(j) = [jobs EXCEPT ![j].status = CANCELLED,
                                                 ![j].completed_at = Some(clock)]
             ELSE /\ CancelCode(j) = 400
                  /\ Cancelled(j) = jobs)
    /\ [][\A j \in DOMAIN jobs :
             /\ jobs[j].status \in {COMPLETED, FAILED} => jobs'[j].status # CANCELLED
             /\ (jobs[j].status # CANCELLED /\ jobs'[j].status = CANCELLED)
                    => jobs' = Cancelled(j)]_vars

\* C5 witness: a cancel was accepted for one job (it is Cancelled, with a
\* completion time) while another job is terminal and would be refused
C5_Witness ==
    \E j, k \in DOMAIN jobs :
        /\ jobs[j].status = CANCELLED /\ jobs[j].completed_at # None
        /\ jobs[k].status \in {COMPLETED, FAILED} /\ CancelCode(k) = 400

\* a finished run of the subprocess strategy in which a worker wrote nothing
MissingArtifactRun(ts, j) ==
    /\ j \in DOMAIN ts
    /\ ts[j].pc = "done"
    /\ ts[j].method = "subprocess"
    /\ ts[j].raised # {}

\* C6: a subprocess run with a missing artifact ends with the job Failed
\* and an error stored, and no job ever holds results merged from fewer
\* partial results than it had chunks.
C6_MissingArtifactFails ==
    \A j \in DOMAIN jobs :
        /\ MissingArtifactRun(tasks, j)
              => jobs[j].status = FAILED /\ jobs[j].error # None
        /\ (tasks[j].pc = "done" /\ jobs[j].results # None)
              => TheOne(jobs[j].results).chunks_processed = Len(tasks[j].chunks)

\* C7: when a chunk of a job fails, under either strategy, the job ends
\* Failed with an error and without results, and its record keeps its id,
\* input file, worker count, method and creation time.
C7_ChunkFailureFailsJob ==
    [][\A j \in DOMAIN tasks' :
          (tasks'[j].pc = "done" /\ tasks'[j].raised # {})
              => /\ j \in DOMAIN jobs'
                 /\ jobs'[j].status = FAILED
                 /\ jobs'[j].error # None
                 /\ jobs'[j].results = None
                 /\ jobs'[j].id = tasks'[j].job_id
                 /\ jobs'[j].input_file = tasks'[j].input_file
                 /\ jobs'[j].num_workers = tasks'[j].num_workers
                 /\ jobs'[j].method = tasks'[j].method
                 /\ jobs'[j].created_at = jobs[j].created_at]_vars

\* ------------------------------------------------------------------ C8
RECURSIVE SumCounts(_, _)
SumCounts(cs, k) == IF k = 0 THEN 0 ELSE cs[k][2] + SumCounts(cs, k - 1)

\* C8: for total_rows >= 0 and num_workers >= 1 the plan has num_workers
\* chunks, chunk 0 starts at row 0, every next chunk starts where the one
\* before it ends, the last chunk ends at total_rows, no chunk has a
\* negative length, and the lengths add up to total_rows.
C8_ChunksPartition ==
    planOut # <<>> =>
        LET T == planIn.total_rows
            N == planIn.num_workers
        IN  /\ Len(planOut) = N
            /\ planOut[1][1] = 0
            /\ \A k \in 1..(N - 1) : planOut[k + 1][1] = planOut[k][1] + planOut[k][2]
            /\ planOut[N][1] + planOut[N][2] = T
            /\ \A k \in 1..N : planOut[k][2] >= 0
            /\ SumCounts(planOut, N) = T

\* C8 witness: a plan for several workers over a row count they do not
\* divide, so that the last chunk takes the remainder
C8_Witness ==
    /\ planOut # <<>>
    /\ planIn.num_workers > 1
    /\ planIn.total_rows % planIn.num_workers # 0
    /\ planIn.total_rows > planIn.num_workers

\* ------------------------------------------------------------------ C9
RECURSIVE SumField(_, _, _)
SumField(list, f, k) == IF k = 0 THEN 0 ELSE list[k][f] + SumField(list, f, k - 1)

\* how often key x is counted in field f over the first k partial results
RECURSIVE SumKey(_, _, _, _)
SumKey(list, f, x, k) ==
    IF k = 0 THEN 0
    ELSE (IF x \in DOMAIN list[k][f] THEN list[k][f][x] ELSE 0) + SumKey(list, f, x, k - 1)

KeysOf(list, f) == UNION {DOMAIN list[k][f] : k \in DOMAIN list}

\* the energy sums added one after the other, first to last, each addition
\* rounded
RECURSIVE FloatSum(_, _)
FloatSum(list, k) ==
    IF k = 0 THEN 0 ELSE FAdd(FloatSum(list, k - 1), list[k].energy_sum)

SumsOf(m, list) ==
    /\ m.total = SumField(list, "total", Len(list))
    /\ m.high_energy_events = SumField(list, "high_energy_events", Len(list))
    /\ DOMAIN m.status_counts = KeysOf(list, "status_counts")
    /\ \A x \in DOMAIN m.status_counts :
           m.status_counts[x] = SumKey(list, "status_counts", x, Len(list))
    /\ DOMAIN m.sensor_counts = KeysOf(list, "sensor_counts")
    /\ \A x \in DOMAIN m.sensor_counts :
           m.sensor_counts[x] = SumKey(list, "sensor_counts", x, Len(list))

\* C9: the merge of a list of partial results has as total and high-energy
\* count the sums of the partial ones, as energy sum their float sum, and
\* its status and sensor counts map exactly the keys of the partial results,
\* each to the sum of its counts (0 where a partial result lacks the key).
C9_MergeSums ==
    mergeOut.kind = "whole" =>
        LET m == TheOne(mergeOut.value)
        IN  /\ SumsOf(m, mergeIn)
            /\ m.energy_sum = FloatSum(mergeIn, Len(mergeIn))

\* C9 witness: a merge of several partial results of which one lacks a
\* status another one has
C9_Witness ==
    /\ mergeOut.kind = "whole"
    /\ Len(mergeIn) > 1
    /\ \E a, b \in DOMAIN mergeIn :
           DOMAIN mergeIn[a].status_counts \ DOMAIN mergeIn[b].status_counts # {}
    /\ TheOne(mergeOut.value).total > 2

\* ----------------------------------------------------------------- C10
\* C10 as stated: merging the partial results in any order, or merging the
\* merges of two sub-collections, gives a result equal in every field to
\* the merge of the whole list.
C10_MergeOrderFree ==
    mergeOut.kind \in {"permuted", "grouped"} =>
        TheOne(mergeOut.value) = merge_results(mergeIn)

\* C10 amended: in any order and any grouping the total, the high-energy
\* count, the status counts and the sensor counts are those of the merge
\* of the whole list; in any order the chunk count is too.
C10_MergeCountsOrderFree ==
    mergeOut.kind \in {"permuted", "grouped"} =>
        LET m == TheOne(mergeOut.value)
            whole == merge_results(mergeIn)
        IN  /\ m.total = whole.total
            /\ m.high_energy_events = whole.high_energy_events
            /\ m.status_counts = whole.status_counts
            /\ m.sensor_counts = whole.sensor_counts
            /\ mergeOut.kind = "permuted" => m.chunks_processed = whole.chunks_processed

\* C10 witness: a regrouped merge of three partial results with different
\* totals
C10_Witness ==
    /\ mergeOut.kind = "grouped"
    /\ Len(mergeIn) = 3
    /\ \E a, b \in DOMAIN mergeIn : mergeIn[a].total # mergeIn[b].total
    /\ TheOne(mergeOut.value).chunks_processed = 2

\* ----------------------------------------------------------------- C11
\* the engine call of job j is over: it returned (results stored) or raised
EngineOver(j) == j \in DOMAIN tasks /\ tasks[j].pc = "done"

\* C11: for the same input file and worker count the pool strategy and the
\* subprocess strategy come to the same outcome: both raise, or both return
\* results equal in every field but method, whatever the order in which
\* the workers finished.
C11_StrategiesAgree ==
    \A j, k \in DOMAIN tasks :
        (/\ EngineOver(j) /\ EngineOver(k)
         /\ tasks[j].method = "multiprocessing" /\ tasks[k].method = "subprocess"
         /\ tasks[j].input_file = tasks[k].input_file
         /\ tasks[j].num_workers = tasks[k].num_workers)
            => /\ (jobs[j].results = None) <=> (jobs[k].results = None)
               /\ jobs[j].results # None =>
                      LET a == TheOne(jobs[j].results)
                          b == TheOne(jobs[k].results)
                      IN  \A f \in DOMAIN a \ {"method"} : a[f] = b[f]

\* ----------------------------------------------------------------- C12
\* the sum of the counts of a dict
RECURSIVE SumValues(_)
SumValues(d) ==
    IF DOMAIN d = {} THEN 0
    ELSE LET x == CHOOSE x \in DOMAIN d : TRUE
         IN  d[x] + SumValues([y \in DOMAIN d \ {x} |-> d[y]])

\* C12: the partial result of a chunk counts exactly the rows of the chunk's
\* range, and a Completed job holds results whose total is the number of
\* data rows of its input, whose status counts add up to that total, and
\* whose chunks_processed is the number of chunks planned.
C12_CompletedCountsAllRows ==
    \A j \in DOMAIN jobs :
        /\ \A i \in DOMAIN tasks[j].partials :
               tasks[j].partials[i].total = tasks[j].chunks[i + 1][2]
        /\ jobs[j].status = COMPLETED =>
               LET r == TheOne(jobs[j].results)
               IN  /\ r.total = count_data_rows(jobs[j].input_file)
                   /\ SumValues(r.status_counts) = r.total
                   /\ r.chunks_processed = Len(tasks[j].chunks)

\* ----------------------------------------------------------------- C13
\* C13: the background task moves a Pending job to Running; the step that
\* ends the task leaves the job Completed with results (the engine call
\* returned) or Failed with an error (it raised); and every job of the
\* registry is, from some moment on, in a terminal state for good: none
\* stays Pending or Running forever.
C13_JobsReachTerminal ==
    /\ [][\A j \in DOMAIN tasks :
             /\ (tasks[j].pc = "scheduled" /\ tasks'[j].pc # "scheduled"
                 /\ jobs[j].status = PENDING) => jobs'[j].status = RUNNING
             /\ (tasks[j].pc # "done" /\ tasks'[j].pc = "done")
                    => \/ jobs'[j].status = COMPLETED /\ jobs'[j].results # None
                       \/ jobs'[j].status = FAILED /\ jobs'[j].error # None]_vars
    /\ \A j \in JobIds :
           <>[](j \in DOMAIN jobs => jobs[j].status \in Terminal)

\* C13 witness: one job's engine call returned and the job is Completed with
\* results, another's raised and the job is Failed with its error
C13_Witness ==
    \E j, k \in DOMAIN jobs :
        /\ EngineOver(j) /\ jobs[j].status = COMPLETED /\ jobs[j].results # None
        /\ EngineOver(k) /\ jobs[k].status = FAILED /\ jobs[k].error # None

\* ----------------------------------------------------------------- C14
\* C14 as stated: result(job_id) is refused as not ready (400) when the job
\* is Pending or Running and is not refused so when the job is Completed,
\* Failed or Cancelled; for a Completed job it returns the stored results.
C14_ResultUnlessTerminal ==
    \A j \in DOMAIN jobs :
        /\ jobs[j].status \in {PENDING, RUNNING} => ResultCode(j) = 400
        /\ jobs[j].status \in Terminal => ResultCode(j) # 400
        /\ jobs[j].status = COMPLETED =>
               ResultResponse(j).results = jobs[j].results

\* C14 amended: result(job_id) is refused as not ready (400) exactly when
\* the job is Pending, Running or Cancelled; for a Completed or Failed job
\* it answers 200 with the job's status, results and error as stored, and a
\* Completed job's results are present and are never changed once stored.
C14_ResultWhenCompletedOrFailed ==
    /\ [](\A j \in DOMAIN jobs :
             IF jobs[j].status \in {PENDING, RUNNING, CANCELLED}
             THEN ResultCode(j) = 400
             ELSE /\ ResultCode(j) = 200
                  /\ ResultResponse(j).status = jobs[j].status
                  /\ ResultResponse(j).results = jobs[j].results
                  /\ ResultResponse(j).error = jobs[j].error
                  /\ jobs[j].status = COMPLETED => jobs[j].results # None)
    /\ [][\A j \in DOMAIN jobs :
             jobs[j].results # None => jobs'[j].results = jobs[j].results]_vars

\* C14 witness: one job is Completed and its results are returned while
\* another is Cancelled and is refused
C14_Witness ==
    \E j, k \in DOMAIN jobs :
        /\ jobs[j].status = COMPLETED /\ ResultCode(j) = 200
        /\ ResultResponse(j).results # None
        /\ jobs[k].status = CANCELLED /\ ResultCode(k) = 400

\* ----------------------------------------------------------------- C15
\* C15: status(job_id) answers 404 for an id that is not in the registry and
\* for an id in the registry answers with that job's status, progress,
\* timestamps and error as they are at that moment; the request neither
\* creates nor changes a job record.
C15_StatusOfKnownIdOnly ==
    /\ [](\A job_id \in JobIds :
             IF job_id \notin DOMAIN jobs
             THEN StatusCode(job_id) = 404
             ELSE /\ StatusCode(job_id) = 200
                  /\ LET answer == StatusResponse(job_id)
                         job == jobs[job_id]
                     IN  /\ answer.job_id = job_id
                         /\ answer.status = job.status
                         /\ answer.progress = job.progress
                         /\ answer.created_at = job.created_at
                         /\ answer.started_at = job.started_at
                         /\ answer.completed_at = job.completed_at
                         /\ answer.error = job.error)
    /\ [][\A job_id \in JobIds : get_job_status(job_id) => jobs' = jobs]_vars

\* C15 witness: an id that was never created is asked for while the
\* registry holds a failed job, whose error and progress the answer carries
C15_Witness ==
    \E j \in DOMAIN jobs, k \in JobIds \ DOMAIN jobs :
        /\ StatusCode(k) = 404
        /\ StatusCode(j) = 200
        /\ StatusResponse(j).status = FAILED
        /\ StatusResponse(j).error # None
        /\ StatusResponse(j).progress > 0

\* ----------------------------------------------------------------- C16
NonDecreasing(seq) == \A a, b \in DOMAIN seq : a < b => seq[a] <= seq[b]

\* C16: the progress values of a job, as the engine reports them and as the
\* registry stores them from one step to the next, never decrease and stay
\* within 0 and 1 (0..10 tenths); the stored value is the last one
\* reported; the engine has reported before a chunk is given to a pool
\* unit or a worker process, and its last report when it returns is 1.
C16_ProgressMonotone ==
    /\ [](\A j \in DOMAIN jobs :
             LET reported == tasks[j].reported
             IN  /\ jobs[j].progress \in 0..10
                 /\ \A k \in DOMAIN reported : reported[k] \in 0..10
                 /\ NonDecreasing(reported)
                 /\ jobs[j].progress =
                        IF reported = <<>> THEN 0 ELSE reported[Len(reported)]
                 /\ tasks[j].launched # {} => reported # <<>>
                 /\ (EngineOver(j) /\ jobs[j].results # None)
                        => reported # <<>> /\ reported[Len(reported)] = 10)
    /\ [][\A j \in DOMAIN jobs : jobs'[j].progress >= jobs[j].progress]_vars

\* C16 witness: a run of the subprocess strategy has returned after five
\* reports, and a chunk of another job is with a pool unit
C16_Witness ==
    \E j, k \in DOMAIN jobs :
        /\ EngineOver(j) /\ jobs[j].results # None
        /\ Len(tasks[j].reported) = 5
        /\ jobs[j].progress = 10
        /\ tasks[k].launched # {} /\ tasks[k].pc = "pool"
        /\ jobs[k].progress = 3

\* ----------------------------------------------------------------- C17
KnownMethods == {"multiprocessing", "subprocess"}

\* C17: a run asked for with a method that is neither strategy gives no
\* chunk to a pool unit or a worker process, and when it is over the job is
\* Failed with the unknown-method error stored and without results.
C17_UnknownMethodFails ==
    \A j \in DOMAIN tasks :
        (tasks[j].method \notin KnownMethods /\ tasks[j].input_file # AbsentFile)
            => /\ tasks[j].launched = {}
               /\ tasks[j].exited = {}
               /\ tasks[j].partials = <<>>
               /\ EngineOver(j) => /\ jobs[j].status = FAILED
                                   /\ jobs[j].error = Some(UnknownMethod)
                                   /\ jobs[j].results = None

\* C17 witness: the run of a job with an unknown method is over
C17_Witness ==
    \E j \in DOMAIN tasks :
        /\ tasks[j].method \notin KnownMethods
        /\ EngineOver(j)
        /\ jobs[j].status = FAILED
        /\ jobs[j].error = Some(UnknownMethod)

\* ----------------------------------------------------------------- C18
\* C18: a run on an input file that does not exist plans no chunk, reports
\* no progress and starts no worker; the step in which it fails takes the
\* job from Running to Failed with the file-not-found error stored; and
\* once a task is over it never runs again.
C18_MissingFileFails ==
    /\ [](\A j \in DOMAIN tasks :
             tasks[j].input_file = AbsentFile
                 => /\ tasks[j].chunks = <<>>
                    /\ tasks[j].reported = <<>>
                    /\ tasks[j].launched = {}
                    /\ EngineOver(j) => /\ jobs[j].status = FAILED
                                        /\ jobs[j].error = Some(FileNotFound)
                                        /\ jobs[j].results = None)
    /\ [][\A j \in DOMAIN tasks :
             /\ (tasks[j].input_file = AbsentFile
                 /\ tasks[j].pc # "done" /\ tasks'[j].pc = "done")
                    => jobs[j].status = RUNNING /\ jobs'[j].status = FAILED
             /\ EngineOver(j) => tasks'[j] = tasks[j]]_vars

\* C18 witness: the run of a job on a missing file is over, the job Failed
C18_Witness ==
    \E j \in DOMAIN tasks :
        /\ tasks[j].input_file = AbsentFile
        /\ EngineOver(j)
        /\ jobs[j].status = FAILED
        /\ jobs[j].error = Some(FileNotFound)
        /\ jobs[j].started_at # None

\* ----------------------------------------------------------------- C19
\* C19: no job that planned at least one chunk holds results merged from
\* zero partial results; the merge of none fails and the job is Failed.
C19_NoMergeOfNothing ==
    \A j \in DOMAIN jobs :
        (Len(tasks[j].chunks) >= 1 /\ jobs[j].results # None)
            => TheOne(jobs[j].results).chunks_processed >= 1

\* ----------------------------------------------------------------- C20
\* the jobs in a terminal state whose completion is older than the age
OldTerminal(older_than_hours) ==
    {j \in DOMAIN jobs :
        /\ jobs[j].status \in Terminal
        /\ TheOne(jobs[j].completed_at) < clock - older_than_hours}

\* C20: a sweep removes exactly the Completed, Failed and Cancelled jobs
\* whose completion is older than the age and returns their number; every
\* other job, Pending, Running or newer, stays in the registry as it was.
C20_SweepRemovesOldTerminal ==
    [][\A older_than_hours \in Ages :
          sweepOlderThan(older_than_hours)
              => LET old == OldTerminal(older_than_hours)
                 IN  /\ DOMAIN jobs' = DOMAIN jobs \ old
                     /\ \A j \in DOMAIN jobs' : jobs'[j] = jobs[j]
                     /\ ClearedCount(jobs, clock, older_than_hours) = Cardinality(old)]_vars

\* C21: for every registry and every status filter (or none), list_jobs
\* without a limit returns each job of the registry whose status equals the
\* filter (every job when there is no filter) exactly once, as the registry
\* holds it, and no job of the result was created after one listed before it.
Matching(status) ==
    {job_id \in DOMAIN jobs : status = None \/ jobs[job_id].status = TheOne(status)}

C21_ListFilteredNewestFirst ==
    \A status \in Filters :
        LET listed == list_jobs(jobs, status, None)
        IN  /\ Len(listed) = Cardinality(Matching(status))
            /\ {listed[k].id : k \in DOMAIN listed} = Matching(status)
            /\ \A k \in DOMAIN listed : listed[k] = jobs[listed[k].id]
            /\ \A a, b \in DOMAIN listed :
                   a < b => listed[a].created_at >= listed[b].created_at

\* C21 witness: two jobs created at different hours with different statuses;
\* the filter keeps one of them and the unfiltered list starts with the later
C21_Witness ==
    /\ DOMAIN jobs = {1, 2}
    /\ jobs[1].created_at < jobs[2].created_at
    /\ jobs[1].status = COMPLETED /\ jobs[2].status = RUNNING
    /\ Len(list_jobs(jobs, Some(COMPLETED), None)) = 1
    /\ list_jobs(jobs, None, None)[1].id = 2

\* C22: for every registry, every filter and every limit that is given, 0
\* included, list_jobs returns at most limit jobs, and they are the first
\* limit jobs of the unlimited list: the limit newest that match the filter.
C22_LimitKeepsNewest ==
    \A status \in Filters, limit \in Limits \ {None} :
        LET listed == list_jobs(jobs, status, limit)
            full == list_jobs(jobs, status, None)
        IN  /\ Len(listed) <= TheOne(limit)
            /\ listed = SubSeq(full, 1, Min(TheOne(limit), Len(full)))

\* C23: update_progress(job_id, p) leaves min(max(p, 0), 1) in the job's
\* progress whatever p is, and changes no other field of the job and no
\* other job; in every state every job's progress is from 0 to 1 (10 tenths).
Clamped(p) == IF p < 0 THEN 0 ELSE IF p > 10 THEN 10 ELSE p

C23_ProgressClamped ==
    /\ [](\A j \in DOMAIN jobs : jobs[j].progress \in 0..10)
    /\ [][\A job_id \in DOMAIN jobs, p \in ProgressInputs :
            setProgress(job_id, p) =>
                /\ DOMAIN jobs' = DOMAIN jobs
                /\ jobs'[job_id] = [jobs[job_id] EXCEPT !.progress = Clamped(p)]
                /\ \A other \in DOMAIN jobs \ {job_id} : jobs'[other] = jobs[other]]_vars

\* C23 witness: a pending job whose progress is 1 and a completed job whose
\* progress is 0: update_progress has stored a value for each, one at the
\* upper and one at the lower end
C23_Witness ==
    /\ DOMAIN jobs = {1, 2}
    /\ jobs[1].status = PENDING /\ jobs[1].progress = 10
    /\ jobs[2].status = COMPLETED /\ jobs[2].progress = 0

\* C24: whenever a job is Running and its engine call is waiting for units
\* of the pool or for worker processes that have not finished, that call does
\* not hold the event loop, on which every status, list and stats query is
\* answered: the queries are not kept waiting for the workers.
WaitingForWorkers(j) ==
    /\ tasks[j].pc \in {"pool", "wait"}
    /\ tasks[j].exited # ChunkIds(tasks[j])

C24_ForegroundNeverWaits ==
    \A j \in DOMAIN tasks :
        jobs[j].status = RUNNING /\ WaitingForWorkers(j) => loop # Some(j)

\* C25: when the engine call of a job has ended in a merge, every planned
\* chunk was given to one unit and each unit has ended, and what was merged
\* is one partial result per chunk, each the result of that chunk's own unit
\* working on that chunk alone: none is missing and none counted twice.
OwnPartial(t, i) ==
    IF t.method = "multiprocessing"
    THEN process_chunk_worker(FileRows(t.input_file), t.chunks[i + 1][1], t.chunks[i + 1][2], i)
    ELSE worker_main(FileRows(t.input_file), t.chunks[i + 1][1], t.chunks[i + 1][2], i)

C25_EachChunkMergedOnce ==
    \A j \in DOMAIN tasks :
        EngineOver(j) /\ jobs[j].results # None =>
            LET t == tasks[j]
                own == [k \in 1..Len(t.chunks) |-> OwnPartial(t, k - 1)]
            IN  /\ t.launched = ChunkIds(t) /\ t.exited = ChunkIds(t)
                /\ \A k \in DOMAIN own : ~IsFail(own[k])
                /\ TheOne(jobs[j].results) = FinalResults(own, t.method, t.num_workers)

\* C26: in the out-of-process strategy, whenever the collect loop reads the
\* artifacts of a run, a worker process has been started for every chunk of
\* that run and every one of them has exited, whatever order they exited in.
C26_ReadAfterAllExited ==
    [][\A j \in DOMAIN tasks :
          collect_results(j) =>
              /\ tasks[j].launched = ChunkIds(tasks[j])
              /\ tasks[j].exited = tasks[j].launched]_vars

\* C26 witness: a subprocess run with two workers whose artifacts have been
\* collected
C26_Witness ==
    \E j \in DOMAIN tasks :
        /\ tasks[j].method = "subprocess"
        /\ Len(tasks[j].chunks) = 2
        /\ tasks[j].pc = "done"
        /\ tasks[j].exited = {0, 1}
        /\ jobs[j].results # None

\* C27: split_into_chunks(T, N) gives floor(T/N) rows to every chunk except
\* the last and T - (N-1)*floor(T/N) rows to the last, which is at most N-1
\* rows more than the others get; when N > T every chunk but the last has 0
\* rows and the last has T.
C27_PlanArithmetic ==
    planOut # <<>> =>
        LET T == planIn.total_rows
            N == planIn.num_workers
            floor == CHOOSE q \in 0..T : q * N <= T /\ T < (q + 1) * N
        IN  /\ \A k \in 1..(N - 1) : planOut[k][2] = floor
            /\ planOut[N][2] = T - (N - 1) * floor
            /\ planOut[N][2] - floor \in 0..(N - 1)
            /\ N > T => /\ \A k \in 1..(N - 1) : planOut[k][2] = 0
                         /\ planOut[N][2] = T

\* C27 witness: a plan for more workers than there are rows, and rows to plan
C27_Witness ==
    /\ planOut # <<>>
    /\ planIn.num_workers > planIn.total_rows
    /\ planIn.total_rows > 1

\* C28: every step that reads or writes the job registry is taken by a
\* thread that holds the JobManager's lock, and the lock is held by at most
\* one thread at a time.
C28_RegistryUnderLock ==
    /\ [](Cardinality(lock) <= 1)
    /\ [][(end_with \/ health_total) => lock = Some(MainThread)]_vars

\* C29: a job record that get_job or list_jobs has returned to a caller
\* keeps the value it had when it was returned: no later call that changes
\* the job in the store changes what the caller holds.
C29_ReturnedRecordIsSnapshot ==
    [][\A job_id \in held \cap held' : HeldValue(job_id)' = HeldValue(job_id)]_vars

\* C30: a submission, which calls create_job once, adds exactly one record,
\* under an id the registry did not have; the record is Pending with progress
\* 0, carries the request's input file, worker count and method, and has no
\* started_at, completed_at, results or error; every record the registry had
\* is as it was.
C30_CreateAddsOnePending ==
    [][\A request \in Requests :
          submit_job(request) =>
              LET new == DOMAIN jobs' \ DOMAIN jobs
              IN  /\ Cardinality(new) = 1
                  /\ DOMAIN jobs \subseteq DOMAIN jobs'
                  /\ \A id \in new :
                         /\ jobs'[id].id = id
                         /\ jobs'[id].status = PENDING
                         /\ jobs'[id].progress = 0
                         /\ jobs'[id].input_file = request.input_file
                         /\ jobs'[id].num_workers = request.num_workers
                         /\ jobs'[id].method = request.method
                         /\ jobs'[id].created_at = clock
                         /\ jobs'[id].started_at = None
                         /\ jobs'[id].completed_at = None
                         /\ jobs'[id].results = None
                         /\ jobs'[id].error = None
                  /\ \A other \in DOMAIN jobs : jobs'[other] = jobs[other]]_vars

\* C30 witness: a registry of two jobs: the second as create_job made it,
\* its background task not yet started, beside a first one that has completed
C30_Witness ==
    /\ DOMAIN jobs = {1, 2}
    /\ jobs[1].status = COMPLETED
    /\ jobs[2].status = PENDING
    /\ tasks[2].pc = "scheduled"

\* C31: after an EventProcessor has consumed any number of well-formed rows,
\* total is that number, status_counts and sensor_counts hold for each status
\* and each sensor the number of consumed rows that carry it (and nothing
\* else, so the values of each sum to total), and high_energy_events is the
\* number of consumed rows whose energy is more than 100, a row of exactly
\* 100 not among them.
Consumed == 1..position

CountsOf(counts, field) ==
    /\ DOMAIN counts = {events[k][field] : k \in Consumed}
    /\ \A x \in DOMAIN counts :
           counts[x] = Cardinality({k \in Consumed : events[k][field] = x})
    /\ SumValues(counts) = position

C31_ProcessorCounts ==
    /\ processor.total = position
    /\ CountsOf(processor.status_counts, "status")
    /\ CountsOf(processor.sensor_counts, "sensor_id")
    /\ processor.high_energy_events =
           Cardinality({k \in Consumed : events[k].energy.value > 100})

\* C31 witness: three rows consumed, one of energy exactly 100 and one above
C31_Witness ==
    /\ position = 3
    /\ \E a, b \in Consumed : events[a] = RowEdge /\ events[b] = RowHigh
    /\ processor.high_energy_events = 1

\* C32: whenever the collect loop of an out-of-process run reads the
\* artifacts of its chunks, every artifact it finds was written by the worker
\* this run started for that chunk: none is there for a chunk whose own
\* worker ended without writing.
C32_NoStaleArtifactRead ==
    [][\A j \in DOMAIN tasks :
          collect_results(j) =>
              \A i \in ChunkIds(tasks[j]) :
                  artifacts[i] # None => i \notin tasks[j].raised]_vars

\* C33: in every state, a job that has results is Completed and its progress
\* is 1 (10 tenths), a job that has an error is Failed, and no job has both,
\* however the steps of execute_job and the cancel requests fall.
C33_ResultsAndErrorMatchStatus ==
    \A j \in DOMAIN jobs :
        /\ jobs[j].results # None => jobs[j].status = COMPLETED /\ jobs[j].progress = 10
        /\ jobs[j].error # None => jobs[j].status = FAILED
        /\ jobs[j].results = None \/ jobs[j].error = None

\* C33 witness: a job cancelled while its pool is at work, with neither
\* results nor error, beside a job that has completed with results
C33_Witness ==
    \E a, b \in DOMAIN jobs :
        /\ jobs[a].status = CANCELLED /\ tasks[a].pc = "pool" /\ tasks[a].exited # {}
        /\ jobs[b].status = COMPLETED /\ jobs[b].results # None

\* C34: no step changes the progress, the results, the error or the
\* completed_at of a job that is Completed, Failed or Cancelled before the
\* step, the steps of an engine call still in flight for it included.
C34_TerminalRecordFrozen ==
    [][\A j \in DOMAIN jobs :
          jobs[j].status \in Terminal =>
              /\ jobs'[j].progress = jobs[j].progress
              /\ jobs'[j].results = jobs[j].results
              /\ jobs'[j].error = jobs[j].error
              /\ jobs'[j].completed_at = jobs[j].completed_at]_vars

\* C35: in every state, a job has a completed_at exactly when it is
\* Completed, Failed or Cancelled, and a Pending job has no started_at; and
\* no step changes a started_at that is set.
C35_TimestampsMatchStatus ==
    /\ [](\A j \in DOMAIN jobs :
             /\ jobs[j].completed_at # None <=> jobs[j].status \in Terminal
             /\ jobs[j].status = PENDING => jobs[j].started_at = None)
    /\ [][\A j \in DOMAIN jobs :
             jobs[j].started_at # None => jobs'[j].started_at = jobs[j].started_at]_vars

\* C36: when get_active_jobs returns, every job that was pending or running
\* when the call began and has been so ever since (in these runs jobs are
\* only created and set running, so every job that was there at the
\* beginning) is in the result, and no job is in the result twice.
C36_ActiveJobsComplete ==
    scan.pc = "done" =>
        /\ \A job_id \in scan.atStart \cap ActiveIds :
               \E k \in DOMAIN scan.found : scan.found[k] = job_id
        /\ \A a, b \in DOMAIN scan.found : scan.found[a] = scan.found[b] => a = b

\* C37: a job submitted with num_workers < 1 is never Completed and never
\* has results stored (it can only end Failed, or Cancelled on request).
C37_NoWorkersNeverCompletes ==
    \A job_id \in DOMAIN jobs :
        jobs[job_id].num_workers < 1 =>
            /\ jobs[job_id].status # COMPLETED
            /\ jobs[job_id].results = None
====
